---- MODULE Spec2Model ----
(***************************************************************************)
(* State-machine model of ebltable/ebl_from_model.py: the EBL class, its   *)
(* loaders, its property setters and its query methods.                    *)
(*                                                                         *)
(* Numbers.  Redshifts, wavelengths (micrometre) and intensities are       *)
(* positive integers.  Quantities in the log10 domain are fixed-point      *)
(* integers in units of 1/LogScale dex; np.log10 and np.power(10., .) are  *)
(* computed, from a three-digit mantissa table, and are not inverse to     *)
(* each other off the table points.  Natural logarithms are carried in     *)
(* units of ln(10)/LogScale, so np.log is the same computation.            *)
(*                                                                         *)
(* Python objects.  An instance is its attribute dictionary: a function    *)
(* from attribute names to values, "__class__" included.  A call argument  *)
(* is a record [form, val]: form is "scalar", "list" or "ndarray" and val  *)
(* the sequence of its elements (one element for a scalar).                *)
(***************************************************************************)
EXTENDS Integers, Sequences, FiniteSets, TLC

VARIABLES
    ebl,     \* the caller's EBL instance (attribute dictionary), or NoInstance
    call,    \* the operation executed last, with its arguments as passed
    args,    \* the caller's argument objects as they are after that operation
    out,     \* its outcome: exception raised, warnings emitted, value returned
    frame    \* the locals of that operation at its exit that the claims read

vars == <<ebl, call, args, out, frame>>

----------------------------------------------------------------------------
(* Sequences, grids and numpy helpers                                      *)

Range(s) == {s[i] : i \in DOMAIN s}

SeqsUpTo(S, lo, hi) == UNION {[1..n -> S] : n \in lo..hi}

Perms(n) == {f \in [1..n -> 1..n] : \A i \in 1..n : \E j \in 1..n : f[j] = i}

\* a[idx]: numpy fancy indexing of a one-dimensional array
Take(a, idx) == [k \in DOMAIN idx |-> a[idx[k]]]

\* np.diff
np_diff(a) == [i \in 1..(Len(a) - 1) |-> a[i + 1] - a[i]]

StrictlyIncreasing(a) == \A i \in 1..(Len(a) - 1) : a[i] < a[i + 1]

NonDecreasing(a) == \A i \in 1..(Len(a) - 1) : a[i] <= a[i + 1]

\* ndarray.shape of a two-dimensional array held as a sequence of rows
Shape(g) == <<Len(g), IF Len(g) = 0 THEN 0 ELSE Len(g[1])>>

\* ndarray.T
Transpose(g) == [j \in 1..Shape(g)[2] |-> [i \in 1..Shape(g)[1] |-> g[i][j]]]

\* A two-dimensional array with its elements evaluated: the same value as g
Grid(g) == SubSeq([i \in DOMAIN g |-> SubSeq(g[i], 1, Len(g[i]))], 1, Len(g))

\* np.zeros((n, m))
np_zeros(n, m) == [i \in 1..n |-> [j \in 1..m |-> 0]]

\* np.argsort: the sort used is not stable, so every permutation that sorts
\* the array is a possible return value
np_argsort(a) == {p \in Perms(Len(a)) : NonDecreasing(Take(a, p))}

\* a.sort(): sorts the array object itself, which is what its owner then holds
ndarray_sort(a) == [sorted |-> SortSeq(a, LAMBDA x, y : x < y),
                    arg |-> SortSeq(a, LAMBDA x, y : x < y)]

\* np.sort returns a sorted copy and leaves its argument as it was
np_sort(a) == [sorted |-> SortSeq(a, LAMBDA x, y : x < y), arg |-> a]

Min(S) == CHOOSE x \in S : \A y \in S : x <= y

Max(S) == CHOOSE x \in S : \A y \in S : y <= x

----------------------------------------------------------------------------
(* Fixed-point logarithms                                                  *)

LogScale == 1000

\* LogScale * log10(m) for the mantissas m = 1..10
Log10Table == <<0, 301, 477, 602, 699, 778, 845, 903, 954, LogScale>>

RECURSIVE Decade(_)
Decade(x) == IF x < 10 THEN 0 ELSE 1 + Decade(x \div 10)

\* np.log10 of one positive number
log10(x) ==
    LET k == Decade(x)
        p == 10 ^ k
        m == x \div p
        f == x - m * p
    IN  LogScale * k + Log10Table[m]
          + ((Log10Table[m + 1] - Log10Table[m]) * f) \div p

\* np.power(10., v) of one number v >= 0 of the log domain
power10(v) ==
    LET k == v \div LogScale
        r == v % LogScale
        p == 10 ^ k
        m == Max({n \in 1..9 : Log10Table[n] <= r})
    IN  m * p + ((r - Log10Table[m]) * p) \div (Log10Table[m + 1] - Log10Table[m])

\* np.log10 over a one-dimensional array, and over a grid
np_log10(a) == [i \in DOMAIN a |-> log10(a[i])]

np_log10_2d(g) == [i \in DOMAIN g |-> np_log10(g[i])]

\* np.power(10., g) over a grid
np_power10(g) == [i \in DOMAIN g |-> [j \in DOMAIN g[i] |-> power10(g[i][j])]]

\* np.linspace(a, b, n)
np_linspace(a, b, n) ==
    [i \in 1..n |-> IF n = 1 THEN a ELSE a + ((i - 1) * (b - a)) \div (n - 1)]

----------------------------------------------------------------------------
(* scipy.interpolate.RectBivariateSpline                                   *)

\* Default spline degrees of __init__ and of the setters
kxDefault == 2

kyDefault == 2

\* RBSpline(x, y, z, kx=kx, ky=ky): the constructor refuses axes that are not
\* strictly increasing, a grid whose shape is not (len(x), len(y)) and axes
\* with fewer than k+1 points; otherwise the spline is the surface
\* determined by the data it was fitted from.
RBSpline(x, y, z, kx, ky) ==
    IF  /\ StrictlyIncreasing(x)
        /\ StrictlyIncreasing(y)
        /\ Shape(z) = <<Len(x), Len(y)>>
        /\ Len(x) > kx
        /\ Len(y) > ky
    THEN [raised |-> "none", spline |-> [x |-> x, y |-> y, z |-> z, kx |-> kx, ky |-> ky]]
    ELSE [raised |-> "ValueError", spline |-> [x |-> <<>>, y |-> <<>>, z |-> <<>>, kx |-> kx, ky |-> ky]]

Clamp(v, lo, hi) == IF v < lo THEN lo ELSE IF v > hi THEN hi ELSE v

\* Index of the knot interval of axis a that holds the clamped coordinate v
Interval(a, v) == Max({i \in 1..(Len(a) - 1) : a[i] <= v})

\* Value of the fitted surface at one point (x, y): arguments outside the
\* fitted range are clamped to it, the surface passes through the data at
\* the knots, and between knots it is interpolated (piecewise linearly here,
\* standing for the piecewise polynomial of degree kx, ky).
bispev(spl, x, y) ==
    LET xc == Clamp(x, spl.x[1], spl.x[Len(spl.x)])
        yc == Clamp(y, spl.y[1], spl.y[Len(spl.y)])
        i  == Interval(spl.x, xc)
        j  == Interval(spl.y, yc)
        AlongX(col) == spl.z[i][col]
            + ((spl.z[i + 1][col] - spl.z[i][col]) * (xc - spl.x[i]))
                \div (spl.x[i + 1] - spl.x[i])
    IN  AlongX(j) + ((AlongX(j + 1) - AlongX(j)) * (yc - spl.y[j]))
                        \div (spl.y[j + 1] - spl.y[j])

\* spline(x, y) on sorted coordinate arrays: the grid of shape (len(x), len(y))
SplineCall(spl, x, y) == [a \in DOMAIN x |-> [b \in DOMAIN y |-> bispev(spl, x[a], y[b])]]

----------------------------------------------------------------------------
(* class EBL: construction                                                 *)

NoInstance == [__class__ |-> "NoneType"]

IsEBL(obj) == obj["__class__"] = "EBL"

HasAttr(obj, name) == name \in DOMAIN obj

NoFrame == [op |-> "none"]

\* EBL(z, lmu, nuInu, kx, ky): __init__ stores the three arrays, then fits the
\* spline; an exception of the fit leaves the caller without an instance.
EBL(z, lmu, nuInu, kx, ky) ==
    LET _z      == z
        _loglmu == np_log10(lmu)
        _nuInu  == np_log10_2d(nuInu)
        fit     == RBSpline(_loglmu, _z, _nuInu, kx, ky)
    IN  IF fit.raised = "none"
        THEN [raised |-> "none",
              obj |-> [__class__ |-> "EBL", _z |-> _z, _loglmu |-> _loglmu,
                       _nuInu |-> _nuInu, _EBL__eblSpline |-> fit.spline]]
        ELSE [raised |-> fit.raised, obj |-> NoInstance]

----------------------------------------------------------------------------
(* class EBL: the loaders                                                  *)

\* s == t as a test for "s holds t": 0 where the two are equal, else -1
find_whole(s, t) == IF s = t THEN 0 ELSE -1

\* str.find: the 0-based index of the first occurrence of t in s, or -1
find(s, t) ==
    LET hits == {i \in 1..(Len(s) - Len(t) + 1) : SubSeq(s, i, i + Len(t) - 1) = t}
    IN  IF hits = {} THEN -1 ELSE Min(hits) - 1

\* The if/elif chain of lines 122-150: the data file of a model name, or ""
\* where the chain ends in raise ValueError("Unknown EBL model chosen!")
file_name(model) ==
    IF model = "kneiske" THEN "ebl_nuFnu_tanja.dat"
    ELSE IF model = "franceschini" THEN "ebl_franceschini.dat"
    ELSE IF model = "dominguez" THEN "ebl_dominguez11.out"
    ELSE IF model = "dominguez-upper" THEN "ebl_upper_uncertainties_dominguez11.out"
    ELSE IF model = "dominguez-lower" THEN "ebl_lower_uncertainties_dominguez11.out"
    ELSE IF model = "inoue" THEN "EBL_z_0_baseline.dat"
    ELSE IF model = "inoue-low-pop3" THEN "EBL_z_0_low_pop3.dat"
    ELSE IF model = "inoue-up-pop3" THEN "EBL_z_0_up_pop3.dat"
    ELSE IF model = "gilmore" THEN "eblflux_fiducial.dat"
    ELSE IF model = "gilmore-fixed" THEN "eblflux_fixed.dat"
    ELSE IF model = "cuba" THEN "CUBA_UVB.dat"
    ELSE IF model = "finke" THEN "ebl_modelC_Finke.txt"
    ELSE ""

\* Slices of the table np.loadtxt returns
Row0From1(data) == Tail(data[1])                                          \* data[0,1:]

Row0Inner(data) == SubSeq(data[1], 2, Len(data[1]) - 1)                   \* data[0,1:-1]

Col0From1(data) == [i \in 1..(Len(data) - 1) |-> data[i + 1][1]]          \* data[1:,0]

BlockFrom1(data) == [i \in 1..(Len(data) - 1) |-> Tail(data[i + 1])]      \* data[1:,1:]

BlockInner(data) ==                                                       \* data[1:,1:-1]
    [i \in 1..(Len(data) - 1) |-> SubSeq(data[i + 1], 2, Len(data[i + 1]) - 1)]

Reverse(a) == [i \in DOMAIN a |-> a[Len(a) + 1 - i]]                      \* a[::-1]

\* Angstrom per micrometre: the factor 1e-4 of lines 163, 172 and 193
AngstromPerMicron == 10000

\* The value written over a zero intensity (1e-20): the least positive one
ZeroFloor == 1

\* c.c.value, in the units that make line 180-181 one multiplication and one
\* division by the wavelength in micrometre
LightSpeed == 15

\* nuInu[nuInu == 0.] = 1e-20
ReplaceZeros(g) == [i \in DOMAIN g |-> [j \in DOMAIN g[i] |-> IF g[i][j] = 0 THEN ZeroFloor ELSE g[i][j]]]

\* Lines 184-186: idx holds the places where np.diff(lmu) == 0, found once
\* before the loop; the loop then rewrites lmu[i+1] place by place and stops
\* with IndexError when lmu[i+2] does not exist.  Places are 1-based here.
TiePlaces(lmu) == {i \in 1..(Len(lmu) - 1) : np_diff(lmu)[i] = 0}

RECURSIVE TieLoop(_, _)
TieLoop(lmu, idx) ==
    IF idx = {} THEN [raised |-> "none", lmu |-> lmu]
    ELSE LET i == Min(idx)
         IN  IF i + 2 > Len(lmu)
             THEN [raised |-> "IndexError", lmu |-> lmu]
             ELSE TieLoop([lmu EXCEPT ![i + 1] = (lmu[i + 2] + lmu[i]) \div 2], idx \ {i})

ResolveTies(lmu) == TieLoop(lmu, TiePlaces(lmu))

\* readmodel(model), with data the content of the model's data file; the
\* result carries the local lmu as the method leaves it
readmodel(model, data) ==
    IF file_name(model) = ""
    THEN [raised |-> "ValueError", obj |-> NoInstance, lmu |-> <<>>]
    ELSE IF find(model, "inoue") >= 0
    THEN [raised |-> "ValueError", obj |-> NoInstance, lmu |-> Col0From1(data)]
    ELSE IF find(model, "gilmore") >= 0
    THEN LET z     == Row0From1(data)
             lmu   == [i \in 1..(Len(data) - 1) |-> data[i + 1][1] \div AngstromPerMicron]
             nuInu == ReplaceZeros(BlockFrom1(data))
             conv  == [i \in DOMAIN nuInu |-> [j \in DOMAIN nuInu[i] |->
                          (nuInu[i][j] * data[i + 1][1]) \div AngstromPerMicron]]
             e     == EBL(z, lmu, conv, kxDefault, kyDefault)
         IN  [raised |-> e.raised, obj |-> e.obj, lmu |-> lmu]
    ELSE IF model = "cuba"
    THEN LET z     == Row0Inner(data)
             lmu   == [i \in 1..(Len(data) - 1) |-> data[i + 1][1] \div AngstromPerMicron]
             nuInu == ReplaceZeros(BlockInner(data))
             conv  == [i \in DOMAIN nuInu |-> [j \in DOMAIN nuInu[i] |->
                          (nuInu[i][j] * LightSpeed) \div lmu[i]]]
             ties  == ResolveTies(lmu)
             e     == EBL(z, ties.lmu, conv, kxDefault, kyDefault)
         IN  IF ties.raised # "none"
             THEN [raised |-> ties.raised, obj |-> NoInstance, lmu |-> ties.lmu]
             ELSE [raised |-> e.raised, obj |-> e.obj, lmu |-> ties.lmu]
    ELSE LET z     == Row0From1(data)
             lmu   == IF model = "finke"
                      THEN [i \in 1..(Len(data) - 1) |->
                               Reverse(Col0From1(data))[i] \div AngstromPerMicron]
                      ELSE Col0From1(data)
             nuInu == IF model = "finke" THEN Reverse(BlockFrom1(data)) ELSE BlockFrom1(data)
             e     == EBL(z, lmu, nuInu, kxDefault, kyDefault)
         IN  [raised |-> e.raised, obj |-> e.obj, lmu |-> lmu]

\* readascii(file_name), with data the content of the file
readascii(data) == EBL(Row0From1(data), Col0From1(data), BlockFrom1(data), kxDefault, kyDefault)

\* lmu.to(u.micrometer).value
ToMicrometer(val, unit) ==
    [i \in DOMAIN val |-> IF unit = "nm" THEN val[i] \div 1000 ELSE val[i]]

\* readfits(file_name), with hdus the two tables of the file
readfits(hdus) ==
    LET z   == hdus.NUINU_VS_Z.REDSHIFT
        e   == hdus.NUINU_VS_Z.EBL_DENS
        lmu == ToMicrometer(hdus.WAVELENGTHS.WAVELENGTH, hdus.WAVELENGTHS.unit)
    IN  EBL(z, lmu, Transpose(e), kxDefault, kyDefault)

----------------------------------------------------------------------------
(* class EBL: the property setters                                         *)

\* obj.name = v
SetAttr(obj, name, v) == [n \in DOMAIN obj \cup {name} |-> IF n = name THEN v ELSE obj[n]]

\* The statement shared by the three setters,
\*   self.__eblSpline = RBSpline(self._loglnu, self._z, self._nuInu, kx=kx, ky=ky)
\* whose first argument reads the attribute _loglnu of the instance.
Refit(self, kx, ky) ==
    IF ~HasAttr(self, "_loglnu")
    THEN [raised |-> "AttributeError", obj |-> self]
    ELSE LET fit == RBSpline(self["_loglnu"], self["_z"], self["_nuInu"], kx, ky)
         IN  IF fit.raised = "none"
             THEN [raised |-> "none", obj |-> SetAttr(self, "_EBL__eblSpline", fit.spline)]
             ELSE [raised |-> fit.raised, obj |-> self]

\* @z.setter
z_setter(self, z, kx, ky) == Refit(SetAttr(self, "_z", z), kx, ky)

\* @loglmu.setter
loglmu_setter(self, lmu, kx, ky) == Refit(SetAttr(self, "_loglmu", np_log10(lmu)), kx, ky)

\* @nuInu.setter
nuInu_setter(self, nuInu, kx, ky) == Refit(SetAttr(self, "_nuInu", np_log10_2d(nuInu)), kx, ky)

----------------------------------------------------------------------------
(* class EBL: the queries                                                  *)

Scalar(v) == [form |-> "scalar", val |-> <<v>>]

List(a) == [form |-> "list", val |-> a]

Array(a) == [form |-> "ndarray", val |-> a]

np_isscalar(a) == a.form = "scalar"

IsList(a) == a.form = "list"

\* np.array(a): a new array with the elements of a
np_array(a) == [form |-> "ndarray", val |-> a.val]

\* The array object z is bound to after lines 309-312
PromoteZ(z) == IF np_isscalar(z) \/ IsList(z) THEN np_array(z) ELSE z

\* The object lmu is bound to after lines 305-308: a list is converted into
\* the local ETeV and lmu stays the list
PromoteLmu(lmu) == IF np_isscalar(lmu) THEN np_array(lmu) ELSE lmu

\* tt = src and result = src: the sorted grid taken over as it is
AssignRows(tt, idx, src) == src

AssignCols(result, idx, src) == src

\* tt[args_z, :] = src
ScatterRows(tt, idx, src) ==
    [i \in DOMAIN tt |->
        IF \E k \in DOMAIN idx : idx[k] = i
        THEN src[Max({k \in DOMAIN idx : idx[k] = i})]
        ELSE tt[i]]

\* result[:, args_l] = src
ScatterCols(result, idx, src) ==
    [i \in DOMAIN result |-> [j \in DOMAIN result[i] |->
        IF \E k \in DOMAIN idx : idx[k] = j
        THEN src[i][Max({k \in DOMAIN idx : idx[k] = j})]
        ELSE result[i][j]]]

\* The caller's object behind argument a when the array the method works on
\* holds elems: an ndarray argument is that array, a scalar or a list was
\* copied by np.array and is out of the method's reach
CallerObject(a, elems) == IF a.form = "ndarray" THEN [a EXCEPT !.val = elems] ELSE a

\* ebl_array(self, z, lmu), with args_z and args_l the values np.argsort
\* returns at lines 321-322.  The result names the exception raised, the
\* number of warnings emitted, the returned grid and the caller's two
\* argument objects as the call leaves them.
ebl_array(self, z, lmu, args_z, args_l) ==
    LET lmu1   == PromoteLmu(lmu)
        z1     == PromoteZ(z)
        warned == IF \E i \in DOMAIN z1.val : z1.val[i] < self["_z"][1] THEN 1 ELSE 0
    IN  IF lmu1.form # "ndarray"
        THEN [raised |-> "AttributeError", warned |-> warned, ret |-> <<>>,
              z |-> z, lmu |-> lmu]
        ELSE
        LET result0 == np_zeros(Len(z1.val), Len(lmu1.val))
            tt0     == np_zeros(Len(z1.val), Len(lmu1.val))
            sl      == np_sort(lmu1.val)
            sz      == np_sort(z1.val)
            S       == Grid(SplineCall(self["_EBL__eblSpline"], np_log10(sl.sorted), sz.sorted))
            tt      == Grid(ScatterRows(tt0, args_z, Transpose(S)))
            result  == Grid(ScatterCols(result0, args_l, tt))
        IN  [raised |-> "none", warned |-> warned, ret |-> np_power10(result),
             z |-> CallerObject(z, sz.arg), lmu |-> CallerObject(lmu, sl.arg)]

\* h * c in units of (model energy unit) * micrometre
HC == 100

\* n_array(self, z, EeV): the photon density is kept as the fraction
\* nuInu / e_J^2, in units of 4 pi 1e-15 e / c
n_array(self, z, EeV, args_z, args_l) ==
    LET EeV1 == IF np_isscalar(EeV) \/ IsList(EeV) THEN np_array(EeV) ELSE EeV
        z1   == PromoteZ(z)
        l    == Array([j \in DOMAIN EeV1.val |-> HC \div EeV1.val[j]])
        e_J  == EeV1.val
        n    == ebl_array(self, z1, l, args_z, args_l)
    IN  IF n.raised # "none"
        THEN [raised |-> n.raised, warned |-> n.warned, ret |-> <<>>, z |-> z, lmu |-> EeV]
        ELSE [raised |-> "none", warned |-> n.warned,
              ret |-> [i \in DOMAIN n.ret |-> [j \in DOMAIN n.ret[i] |->
                          [num |-> n.ret[i][j], den |-> e_J[j] * e_J[j]]]],
              z |-> CallerObject(z, n.z.val), lmu |-> EeV]

\* scipy.integrate.simps(y, x): the quadrature is kept as its two arguments
simps(y, x) == [fn |-> "simps", y |-> y, x |-> x]

\* The locals of ebl_int after line 396 and the value it returns
ebl_int(self, z, lmin, lmax, steps, args_z, args_l) ==
    LET logl  == np_linspace(log10(lmin), log10(lmax), steps)
        lnl   == np_log10(np_linspace(lmin, lmax, steps))
        lam   == [i \in DOMAIN logl |-> power10(logl[i])]
        I     == ebl_array(self, z, Array(lam), args_z, args_l)
        ln_Il == [i \in DOMAIN I.ret |-> [j \in DOMAIN I.ret[i] |-> LogScale * I.ret[i][j]]]
    IN  [raised |-> I.raised, warned |-> I.warned,
         ret |-> IF I.raised = "none" THEN simps(ln_Il, lnl) ELSE <<>>,
         z |-> I.z, logl |-> logl, lnl |-> lnl, lam |-> lam]

\* writefits(self, filename, z, lmu): the two tables written to the file
writefits(self, z, lmu, args_z, args_l) ==
    LET I == ebl_array(self, z, lmu, args_z, args_l)
    IN  [raised |-> I.raised, warned |-> I.warned, ret |-> <<>>, z |-> I.z, lmu |-> I.lmu,
         file |-> IF I.raised = "none"
                  THEN [NUINU_VS_Z |-> [REDSHIFT |-> z.val, EBL_DENS |-> I.ret],
                        WAVELENGTHS |-> [WAVELENGTH |-> lmu.val]]
                  ELSE [NUINU_VS_Z |-> <<>>, WAVELENGTHS |-> <<>>]]

----------------------------------------------------------------------------
(* Inputs                                                                  *)

\* Redshift axes a caller passes: two valid ones, one out of order, one short
ZAxes == {<<1, 3, 5>>, <<2, 3, 4>>, <<3, 1, 5>>, <<1, 3>>}

\* Wavelength axes a caller passes: valid, with a tie, out of order
LAxes == {<<1, 10, 100>>, <<1, 10, 10>>, <<10, 1, 100>>}

\* Intensity grid of shape (n, m) with entries 1, 10, 100
Ramp(n, m, s) == [i \in 1..n |-> [j \in 1..m |-> 10 ^ ((i + j + s) % 3)]]

Grids == {Ramp(3, 3, 0), Ramp(3, 3, 1), Ramp(2, 3, 0)}

\* Query arguments: redshifts below, inside and between the tabulated ones
ZScalars == {Scalar(0), Scalar(2)}

ZArgs == ZScalars \cup {List(<<2, 0>>), Array(<<2, 0>>), Array(<<4, 2>>)}

\* Query wavelengths (micrometre) and energies
LArgs == {Scalar(10), List(<<10, 1>>), Array(<<10, 1>>), Array(<<5, 50>>)}

EArgs == {Scalar(10), List(<<1, 100>>), Array(<<100, 1>>)}

\* Integration limits (lmin, lmax) and the largest number of steps
IntLimits == {<<1, 10>>, <<1, 100>>}

MaxSteps == 3

\* Contents of the data files.  DataTable lays a table out as the loaders
\* read it: row 0 holds the redshifts after an ignored cell, column 0 the
\* wavelengths.
DataTable(z, lmu, nuInu) == <<(<<0>> \o z)>> \o [i \in DOMAIN lmu |-> <<lmu[i]>> \o nuInu[i]]

Scaled(a, k) == [i \in DOMAIN a |-> k * a[i]]

FileZ == <<1, 3, 5>>

\* A grid of the Gilmore and CUBA files: n rows, m columns, with zeros
ZeroRamp(n, m, s) == [i \in 1..n |-> [j \in 1..m |-> IF (i + j + s) % 3 = 0 THEN 0 ELSE 10 ^ ((i + j + s) % 3)]]

PlainFiles == {DataTable(FileZ, l, g) : l \in {<<1, 10, 100>>, <<1, 3, 5>>},
                                        g \in {Ramp(3, 3, 0), Ramp(3, 3, 1)}}

GilmoreFiles == {DataTable(FileZ, Scaled(<<1, 3, 5>>, AngstromPerMicron), ZeroRamp(3, 3, s)) : s \in 0..1}

FinkeFiles == {DataTable(FileZ, Scaled(<<5, 3, 1>>, AngstromPerMicron), Ramp(3, 3, s)) : s \in 0..1}

\* The CUBA file: one more column than redshifts are used, and a wavelength
\* column (Angstrom) that is non-decreasing and may repeat values
MinAxisLen == kxDefault + 1

MaxAxisLen == 4

CubaAxes == {a \in SeqsUpTo({1, 3, 5}, MinAxisLen, MaxAxisLen) : NonDecreasing(a)}

CubaFiles == {DataTable(FileZ \o <<7>>, Scaled(a, AngstromPerMicron), ZeroRamp(Len(a), 4, 0)) : a \in CubaAxes}

FileContents(name) ==
    IF name = "CUBA_UVB.dat" THEN CubaFiles
    ELSE IF name \in {"eblflux_fiducial.dat", "eblflux_fixed.dat"} THEN GilmoreFiles
    ELSE IF name = "ebl_modelC_Finke.txt" THEN FinkeFiles
    ELSE PlainFiles

Recognized == {"kneiske", "franceschini", "dominguez", "dominguez-upper", "dominguez-lower",
               "inoue", "inoue-low-pop3", "inoue-up-pop3", "gilmore", "gilmore-fixed",
               "cuba", "finke"}

InoueFamily == {"inoue", "inoue-low-pop3", "inoue-up-pop3"}

\* Names a caller may pass: the recognized ones, the spellings of the
\* docstring, and others
ModelNames == Recognized \cup {"inuoe", "inuoe-low-pop3", "stecker", ""}

\* Query arrays of the array-evaluation specifications: every array of up to
\* MaxQueryLen (MaxPermLen) redshifts and of as many wavelengths
MaxQueryLen == 3

MaxPermLen == 2

QZVals == {0, 2, 4}

QLVals == {1, 5, 50}

FitsFiles ==
    {[NUINU_VS_Z |-> [REDSHIFT |-> z, EBL_DENS |-> Transpose(g)],
      WAVELENGTHS |-> [WAVELENGTH |-> Scaled(l, IF u = "nm" THEN 1000 ELSE 1), unit |-> u]] :
        z \in ZAxes, l \in LAxes, g \in {Ramp(3, 3, 0), Ramp(3, 3, 1)}, u \in {"micrometer", "nm"}}

----------------------------------------------------------------------------
(* Operations                                                              *)

Init ==
    /\ ebl = NoInstance
    /\ call = [op |-> "none"]
    /\ args = <<>>
    /\ out = [raised |-> "none", warned |-> 0, ret |-> <<>>]
    /\ frame = NoFrame

\* ebl = EBL(z, lmu, nuInu)
Construct ==
    \E z \in ZAxes, lmu \in LAxes, nuInu \in Grids :
        \E r \in {EBL(z, lmu, nuInu, kxDefault, kyDefault)} :
            /\ call' = [op |-> "EBL", z |-> z, lmu |-> lmu, nuInu |-> nuInu]
            /\ args' = <<z, lmu, nuInu>>
            /\ ebl' = IF r.raised = "none" THEN r.obj ELSE ebl
            /\ out' = [raised |-> r.raised, warned |-> 0, ret |-> r.obj]
            /\ frame' = NoFrame

\* ebl.z = z, ebl.loglmu = lmu, ebl.nuInu = nuInu: the caller goes on with the
\* instance whether or not the assignment raised
SetZ ==
    /\ IsEBL(ebl)
    /\ \E z \in ZAxes :
        \E r \in {z_setter(ebl, z, kxDefault, kyDefault)} :
            /\ call' = [op |-> "z.setter", z |-> z]
            /\ args' = <<z>>
            /\ ebl' = r.obj
            /\ out' = [raised |-> r.raised, warned |-> 0, ret |-> <<>>]
            /\ frame' = NoFrame

SetLoglmu ==
    /\ IsEBL(ebl)
    /\ \E lmu \in LAxes :
        \E r \in {loglmu_setter(ebl, lmu, kxDefault, kyDefault)} :
            /\ call' = [op |-> "loglmu.setter", lmu |-> lmu]
            /\ args' = <<lmu>>
            /\ ebl' = r.obj
            /\ out' = [raised |-> r.raised, warned |-> 0, ret |-> <<>>]
            /\ frame' = NoFrame

SetNuInu ==
    /\ IsEBL(ebl)
    /\ \E nuInu \in Grids :
        \E r \in {nuInu_setter(ebl, nuInu, kxDefault, kyDefault)} :
            /\ call' = [op |-> "nuInu.setter", nuInu |-> nuInu]
            /\ args' = <<nuInu>>
            /\ ebl' = r.obj
            /\ out' = [raised |-> r.raised, warned |-> 0, ret |-> <<>>]
            /\ frame' = NoFrame

\* ebl.ebl_array(z, lmu)
EblArray ==
    /\ IsEBL(ebl)
    /\ \E z \in ZArgs, lmu \in LArgs :
       \E args_z \in np_argsort(PromoteZ(z).val), args_l \in np_argsort(PromoteLmu(lmu).val) :
        \E r \in {ebl_array(ebl, z, lmu, args_z, args_l)} :
            /\ call' = [op |-> "ebl_array", z |-> z, lmu |-> lmu]
            /\ args' = <<r.z, r.lmu>>
            /\ out' = [raised |-> r.raised, warned |-> r.warned, ret |-> r.ret]
            /\ frame' = NoFrame
            /\ UNCHANGED ebl

\* ebl.n_array(z, EeV)
NArray ==
    /\ IsEBL(ebl)
    /\ \E z \in ZArgs, EeV \in EArgs :
       \E args_z \in np_argsort(z.val),
          args_l \in np_argsort([j \in DOMAIN EeV.val |-> HC \div EeV.val[j]]) :
        \E r \in {n_array(ebl, z, EeV, args_z, args_l)} :
            /\ call' = [op |-> "n_array", z |-> z, lmu |-> EeV]
            /\ args' = <<r.z, r.lmu>>
            /\ out' = [raised |-> r.raised, warned |-> r.warned, ret |-> r.ret]
            /\ frame' = NoFrame
            /\ UNCHANGED ebl

\* ebl.ebl_int(z, lmin, lmax, steps)
EblInt ==
    /\ IsEBL(ebl)
    /\ \E z \in ZScalars, lim \in IntLimits, steps \in 1..MaxSteps :
       \E args_l \in np_argsort(np_linspace(log10(lim[1]), log10(lim[2]), steps)) :
        \E r \in {ebl_int(ebl, z, lim[1], lim[2], steps, <<1>>, args_l)} :
            /\ call' = [op |-> "ebl_int", z |-> z, lmin |-> lim[1], lmax |-> lim[2],
                        steps |-> steps]
            /\ args' = <<r.z>>
            /\ out' = [raised |-> r.raised, warned |-> r.warned, ret |-> r.ret]
            /\ frame' = [op |-> "ebl_int", logl |-> r.logl, lnl |-> r.lnl, lam |-> r.lam]
            /\ UNCHANGED ebl

\* ebl.writefits(filename, z, lmu)
WriteFits ==
    /\ IsEBL(ebl)
    /\ \E z \in {a \in ZArgs : ~np_isscalar(a)}, lmu \in {a \in LArgs : ~np_isscalar(a)} :
       \E args_z \in np_argsort(z.val), args_l \in np_argsort(lmu.val) :
        \E r \in {writefits(ebl, z, lmu, args_z, args_l)} :
            /\ call' = [op |-> "writefits", z |-> z, lmu |-> lmu]
            /\ args' = <<r.z, r.lmu>>
            /\ out' = [raised |-> r.raised, warned |-> r.warned, ret |-> r.file]
            /\ frame' = NoFrame
            /\ UNCHANGED ebl

\* ebl = EBL.readmodel(model)
ReadModel ==
    \E model \in ModelNames :
    \E data \in IF file_name(model) = "" THEN {<<>>} ELSE FileContents(file_name(model)) :
    \E r \in {readmodel(model, data)} :
        /\ call' = [op |-> "readmodel", model |-> model, data |-> data]
        /\ args' = <<model>>
        /\ ebl' = IF r.raised = "none" THEN r.obj ELSE ebl
        /\ out' = [raised |-> r.raised, warned |-> 0, ret |-> r.obj]
        /\ frame' = [op |-> "readmodel", lmu |-> r.lmu]

\* ebl = EBL.readascii(file_name)
ReadAscii ==
    \E data \in PlainFiles :
    \E r \in {readascii(data)} :
        /\ call' = [op |-> "readascii", data |-> data]
        /\ args' = <<>>
        /\ ebl' = IF r.raised = "none" THEN r.obj ELSE ebl
        /\ out' = [raised |-> r.raised, warned |-> 0, ret |-> r.obj]
        /\ frame' = NoFrame

\* ebl = EBL.readfits(file_name)
ReadFits ==
    \E hdus \in FitsFiles :
    \E r \in {readfits(hdus)} :
        /\ call' = [op |-> "readfits", data |-> hdus]
        /\ args' = <<>>
        /\ ebl' = IF r.raised = "none" THEN r.obj ELSE ebl
        /\ out' = [raised |-> r.raised, warned |-> 0, ret |-> r.obj]
        /\ frame' = NoFrame

Next ==
    \/ Construct
    \/ SetZ
    \/ SetLoglmu
    \/ SetNuInu
    \/ EblArray
    \/ NArray
    \/ EblInt
    \/ WriteFits

Spec == Init /\ [][Next]_vars

\* ebl_array as a function of two arrays, on a valid instance: the arrays
\* are drawn first and the call is evaluated next
Instances ==
    {e.obj : e \in {x \in {EBL(<<1, 3, 5>>, <<1, 10, 100>>, nuInu, kxDefault, kyDefault) :
                              nuInu \in Grids} : x.raised = "none"}}

InitArrays(maxLen) ==
    /\ ebl \in Instances
    /\ \E za \in SeqsUpTo(QZVals, 1, maxLen), la \in SeqsUpTo(QLVals, 1, maxLen) :
        /\ call = [op |-> "pending", z |-> Array(za), lmu |-> Array(la)]
        /\ args = <<Array(za), Array(la)>>
    /\ out = [raised |-> "none", warned |-> 0, ret |-> <<>>]
    /\ frame = NoFrame

Evaluate ==
    /\ call.op = "pending"
    /\ \E args_z \in np_argsort(call.z.val), args_l \in np_argsort(call.lmu.val) :
       \E r \in {ebl_array(ebl, call.z, call.lmu, args_z, args_l)} :
            /\ call' = [call EXCEPT !.op = "ebl_array"]
            /\ args' = <<r.z, r.lmu>>
            /\ out' = [raised |-> r.raised, warned |-> r.warned, ret |-> r.ret]
            /\ frame' = NoFrame
            /\ UNCHANGED ebl

NextArray ==
    \/ Evaluate

InitArray == InitArrays(MaxQueryLen)

SpecArray == InitArray /\ [][NextArray]_vars

InitPerm == InitArrays(MaxPermLen)

SpecPerm == InitPerm /\ [][NextArray]_vars

\* The loaders alone: every way the package builds an instance from a file
NextLoad ==
    \/ ReadModel
    \/ ReadAscii
    \/ ReadFits

SpecLoad == Init /\ [][NextLoad]_vars


----------------------------------------------------------------------------
(* Properties                                                              *)

QueryOps == {"ebl_array", "n_array", "ebl_int", "writefits"}

\* The argument objects a query was called with, as the caller passed them
PassedArgs(c) == IF c.op = "ebl_int" THEN <<c.z>> ELSE <<c.z, c.lmu>>

\* The spline RBSpline fits to the three arrays an instance stores now
StoredFit(obj) == RBSpline(obj["_loglmu"], obj["_z"], obj["_nuInu"], kxDefault, kyDefault)

\* C1: every setter returns normally, and the spline an instance holds is
\* always the one fitted to the three arrays it stores, so that no query is
\* evaluated on a spline older than the stored arrays.
C1_SplineFitsStoredArrays ==
    /\ call.op \in {"z.setter", "loglmu.setter", "nuInu.setter"} => out.raised = "none"
    /\ IsEBL(ebl) => /\ StoredFit(ebl).raised = "none"
                     /\ ebl["_EBL__eblSpline"] = StoredFit(ebl).spline

C3_WarnsOnceIffBelowMinimum ==
    (call.op \in {"ebl_array", "n_array"}) =>
        /\ out.raised = "none"
        /\ out.warned = IF \E i \in DOMAIN call.z.val :
                               call.z.val[i] < Min(Range(ebl["_z"]))
                        THEN 1 ELSE 0
        /\ Shape(out.ret) = <<Len(call.z.val), Len(call.lmu.val)>>

\* C4: ebl_array accepts a scalar, a list or an array for each of its two
\* arguments and returns a grid with one row per redshift and one column
\* per wavelength.
C4_AcceptsScalarListArray ==
    call.op = "ebl_array" =>
        /\ out.raised = "none"
        /\ Shape(out.ret) = <<Len(call.z.val), Len(call.lmu.val)>>

C6_InstanceAxesIncreasing ==
    /\ (/\ call.op = "EBL"
        /\ \/ ~StrictlyIncreasing(call.z)
           \/ ~StrictlyIncreasing(call.lmu)
           \/ Shape(call.nuInu) # <<Len(call.lmu), Len(call.z)>>)
          => (out.raised = "ValueError" /\ out.ret = NoInstance)
    /\ IsEBL(ebl) =>
          /\ StrictlyIncreasing(ebl["_z"])
          /\ StrictlyIncreasing(ebl["_loglmu"])
          /\ Shape(ebl["_nuInu"]) = <<Len(ebl["_loglmu"]), Len(ebl["_z"])>>

\* C8: on a CUBA wavelength column with equal neighbours the tie pass ends
\* without an index error and leaves the axis strictly increasing, also for
\* runs of three or more equal values and for a tie at the end of the axis.
C8_TiePassLeavesAxisIncreasing ==
    (call.op = "readmodel" /\ call.model = "cuba"
        /\ ~StrictlyIncreasing(Col0From1(call.data))) =>
        /\ out.raised # "IndexError"
        /\ StrictlyIncreasing(frame.lmu)

\* C9: a query leaves the instance as it was (stored arrays and spline)
\* and leaves the caller's argument objects as they were passed.
C9_QueriesChangeNothing ==
    [][call'.op \in QueryOps =>
            /\ ebl' = ebl
            /\ args' = PassedArgs(call')]_vars

\* C9 happens: a query on arrays out of order, which the method sorts
C9_Witness ==
    /\ call.op = "ebl_array"
    /\ out.raised = "none"
    /\ call.z.form = "ndarray" /\ ~NonDecreasing(call.z.val)
    /\ call.lmu.form = "ndarray" /\ ~NonDecreasing(call.lmu.val)
    /\ args = <<call.z, call.lmu>>

\* C10: the i-th abscissa ebl_int hands to simps is the logarithm of the
\* i-th wavelength at which the i-th integrand value was evaluated, the
\* wavelengths being log-uniform between lmin and lmax.
C10_AbscissaeAreSampleLogs ==
    (call.op = "ebl_int" /\ out.raised = "none") =>
        /\ frame.lam = [i \in 1..call.steps |-> power10(frame.logl[i])]
        /\ \A i \in 1..call.steps : out.ret.x[i] = log10(frame.lam[i])

============================================================================
